---- MODULE Spec2Model ----
(***************************************************************************)
(* Model of the two codecs of the repository:                              *)
(*   - package base58: Encode32/Encode64/Decode32/Decode64, the fixed      *)
(*     width base58 conversion driven by precomputed tables;               *)
(*   - package sealevel: Params.Serialize / Params.Update, the VM input    *)
(*     block writer and reader.                                            *)
(*                                                                         *)
(* Arithmetic.  TLC integers are 32 bit, the code computes in uint32 and   *)
(* uint64.  A uint32 is modelled as a pair <<lo, hi>> of 16 bit limbs and  *)
(* a uint64 as four 16 bit limbs <<w0, w1, w2, w3>>, least significant     *)
(* first; + and * on uint64 wrap modulo 2^64 exactly as in Go.  A byte is  *)
(* an integer in 0..255, a text is the sequence of its byte values.        *)
(* Arrays keep the 0-based indices of the source (functions on 0..n-1);    *)
(* the constant tables are tuples read through a 0-based accessor.         *)
(***************************************************************************)
EXTENDS Integers, Sequences, FiniteSets, TLC

Limb == 2^16

\* The least element of a non-empty set of integers.
Least(S) == CHOOSE m \in S : \A x \in S : m <= x

\* e, with v computed first.  Go runs statement by statement; TLC defers an
\* operator argument or LET definition until it is read, and a loop written
\* as a recursion would otherwise pile up its whole chain of deferred
\* values.  The value is e in every case.
After(v, e) == IF v = v THEN e ELSE e

\* uint32 value n (n < 2^31) as a limb pair.
U32(n) == <<n % Limb, n \div Limb>>

\* The decimal literal whose digits are those of a followed by the five
\* digits of b (value a * 100000 + b < 2^32), as a limb pair.  The uint32
\* literals of decTable32/decTable64 exceed TLC's integers and are written
\* this way: 2650397687 is Dec(26503, 97687).
Dec(a, b) ==
  LET t == a * 3125               \* a * 100000 = 32 * t
      s == 32 * (t % 2048) + b    \* 32 * t = 65536 * (t \div 2048) + 32 * (t % 2048)
  IN  <<s % Limb, (t \div 2048) + (s \div Limb)>>

\* uint64(x) of a uint32 x.
Ext64(x) == <<x[1], x[2], 0, 0>>

Zero64 == <<0, 0, 0, 0>>

\* 16 bit * 16 bit -> 32 bit product as a limb pair.
MulLimb(a, b) ==
  LET p0 == a * (b % 256)
      p1 == a * (b \div 256)
      s  == p0 + 256 * (p1 % 256)
  IN  <<s % Limb, (s \div Limb) + (p1 \div 256)>>

\* uint64(a) * uint64(b) for uint32 a, b: never wraps.
Mul32(a, b) ==
  LET p00 == MulLimb(a[1], b[1])
      p01 == MulLimb(a[1], b[2])
      p10 == MulLimb(a[2], b[1])
      p11 == MulLimb(a[2], b[2])
      s1  == p00[2] + p01[1] + p10[1]
      s2  == p01[2] + p10[2] + p11[1] + (s1 \div Limb)
      s3  == p11[2] + (s2 \div Limb)
  IN  <<p00[1], s1 % Limb, s2 % Limb, s3>>

\* x + y on uint64: the carry out of bit 63 is dropped (Go's wrap-around).
Add64(x, y) ==
  LET s0 == x[1] + y[1]
      s1 == x[2] + y[2] + (s0 \div Limb)
      s2 == x[3] + y[3] + (s1 \div Limb)
      s3 == x[4] + y[4] + (s2 \div Limb)
  IN  <<s0 % Limb, s1 % Limb, s2 % Limb, s3 % Limb>>

\* Whether x + y on uint64 wraps: the carry out of bit 63.
Carry64(x, y) ==
  LET s0 == x[1] + y[1]
      s1 == x[2] + y[2] + (s0 \div Limb)
      s2 == x[3] + y[3] + (s1 \div Limb)
      s3 == x[4] + y[4] + (s2 \div Limb)
  IN  s3 >= Limb

\* x >> 32 and x & 0xFFFFFFFF on uint64.
Shr32(x) == <<x[3], x[4], 0, 0>>
Lo32(x) == <<x[1], x[2], 0, 0>>

\* x > 0xFFFFFFFFFFFF on uint64.
Above48(x) == x[4] # 0

\* x > 0xFFFFFFFF on uint64.
Above32(x) == x[3] # 0 \/ x[4] # 0

\* Short division of a uint64 by 58: quotient q and remainder r.
DivMod58(x) ==
  LET q3 == x[4] \div 58
      t2 == (x[4] % 58) * Limb + x[3]
      t1 == (t2 % 58) * Limb + x[2]
      t0 == (t1 % 58) * Limb + x[1]
  IN  [q |-> <<t0 \div 58, t1 \div 58, t2 \div 58, q3>>, r |-> t0 % 58]

\* x / r1Div and x % r1Div on uint64, r1Div = 58^5: five short divisions
\* by 58 (floor(floor(x/58)/58...) = floor(x/58^5)); the five remainders
\* are the base 58 digits of x % 58^5.
DivModR1(x) ==
  LET d1 == DivMod58(x)
      d2 == DivMod58(d1.q)
      d3 == DivMod58(d2.q)
      d4 == DivMod58(d3.q)
      d5 == DivMod58(d4.q)
  IN  [q |-> d5.q,
       r |-> U32(d1.r + 58 * d2.r + 3364 * d3.r + 195112 * d4.r + 11316496 * d5.r)]

(***************************************************************************)
(* package base58: constants and tables                                    *)
(***************************************************************************)

\* alphabet maps [0, 58) to the base58 character (byte values of
\* "123456789ABCDEFGHJKLMNPQRSTUVWXYZabcdefghijkmnopqrstuvwxyz").
alphabet ==
  <<49, 50, 51, 52, 53, 54, 55, 56, 57, 65, 66, 67, 68, 69, 70, 71, 72, 74, 75, 76, 77, 78, 80, 81, 82, 83, 84, 85, 86, 87, 88, 89, 90, 97, 98, 99, 100, 101, 102, 103, 104, 105, 106, 107, 109, 110, 111, 112, 113, 114, 115, 116, 117, 118, 119, 120, 121, 122>>

inter32sz == 9
enc32sz == 45
bin32sz == 8
raw32sz == inter32sz * 5

inter64sz == 18
bin64sz == 16
raw64sz == inter64sz * 5

\* inverseLUT maps (character value - '1') to [0, 58); 255 marks an
\* invalid character.
inverseLUT ==
  <<0, 1, 2, 3, 4, 5, 6, 7, 8, 255, 255, 255, 255, 255, 255, 255, 9, 10, 11, 12, 13, 14, 15, 16, 255, 17, 18, 19, 20, 21, 255, 22, 23, 24, 25, 26, 27, 28, 29, 30, 31, 32, 255, 255, 255, 255, 255, 255, 33, 34, 35, 36, 37, 38, 39, 40, 41, 42, 43, 255, 44, 45, 46, 47, 48, 49, 50, 51, 52, 53, 54, 55, 56, 57, 255>>

invalidChar == 255
inverseLUTOffset == 49
inverseLUTSentinel == 1 + 122 - inverseLUTOffset

\* Go's bounds-checked inverseLUT[idx] for an int idx: the 0-based read, or
\* -1 for the run-time panic (index out of range) outside 0..74.
LutAt(idx) == IF idx < 0 \/ idx >= Len(inverseLUT) THEN -1 ELSE inverseLUT[idx + 1]

\* alphabet[d] for a digit d.
AlphabetAt(d) == alphabet[d + 1]

encTable32 ==
  <<
    <<513735, 77223048, 437087610, 300156666, 605448490, 214625350, 141436834, 379377856>>,
    <<0, 78508, 646269101, 118408823, 91512303, 209184527, 413102373, 153715680>>,
    <<0, 0, 11997, 486083817, 3737691, 294005210, 247894721, 289024608>>,
    <<0, 0, 0, 1833, 324463681, 385795061, 551597588, 21339008>>,
    <<0, 0, 0, 0, 280, 127692781, 389432875, 357132832>>,
    <<0, 0, 0, 0, 0, 42, 537767569, 410450016>>,
    <<0, 0, 0, 0, 0, 0, 6, 356826688>>,
    <<0, 0, 0, 0, 0, 0, 0, 1>>
  >>

decTable32 ==
  <<
    <<Dec(0, 1277), Dec(26503, 97687), Dec(38010, 11509), Dec(20743, 86530), Dec(32482, 44966), Dec(6872, 55411), Dec(29591, 55456), Dec(0, 0)>>,
    <<Dec(0, 0), Dec(0, 8360), Dec(11847, 54854), Dec(30476, 9191), Dec(34183, 94749), Dec(1325, 56120), Dec(11991, 3528), Dec(0, 0)>>,
    <<Dec(0, 0), Dec(0, 0), Dec(0, 54706), Dec(29969, 85344), Dec(18346, 29191), Dec(39649, 63911), Dec(4851, 40318), Dec(10737, 41824)>>,
    <<Dec(0, 0), Dec(0, 0), Dec(0, 0), Dec(3, 57981), Dec(14769, 98812), Dec(33371, 78590), Dec(14833, 38760), Dec(41943, 4000)>>,
    <<Dec(0, 0), Dec(0, 0), Dec(0, 0), Dec(0, 0), Dec(23, 42503), Dec(30524, 66824), Dec(25951, 80627), Dec(178, 25792)>>,
    <<Dec(0, 0), Dec(0, 0), Dec(0, 0), Dec(0, 0), Dec(0, 0), Dec(153, 28518), Dec(19339, 2296), Dec(40639, 20128)>>,
    <<Dec(0, 0), Dec(0, 0), Dec(0, 0), Dec(0, 0), Dec(0, 0), Dec(0, 0), Dec(1003, 4420), Dec(33551, 57504)>>,
    <<Dec(0, 0), Dec(0, 0), Dec(0, 0), Dec(0, 0), Dec(0, 0), Dec(0, 0), Dec(0, 0), Dec(6563, 56768)>>,
    <<Dec(0, 0), Dec(0, 0), Dec(0, 0), Dec(0, 0), Dec(0, 0), Dec(0, 0), Dec(0, 0), Dec(0, 1)>>
  >>

encTable64 ==
  <<
    <<2631, 149457141, 577092685, 632289089, 81912456, 221591423, 502967496, 403284731, 377738089, 492128779, 746799, 366351977, 190199623, 38066284, 526403762, 650603058, 454901440>>,
    <<0, 402, 68350375, 30641941, 266024478, 208884256, 571208415, 337765723, 215140626, 129419325, 480359048, 398051646, 635841659, 214020719, 136986618, 626219915, 49699360>>,
    <<0, 0, 61, 295059608, 141201404, 517024870, 239296485, 527697587, 212906911, 453637228, 467589845, 144614682, 45134568, 184514320, 644355351, 104784612, 308625792>>,
    <<0, 0, 0, 9, 256449755, 500124311, 479690581, 372802935, 413254725, 487877412, 520263169, 176791855, 78190744, 291820402, 74998585, 496097732, 59100544>>,
    <<0, 0, 0, 0, 1, 285573662, 455976778, 379818553, 100001224, 448949512, 109507367, 117185012, 347328982, 522665809, 36908802, 577276849, 64504928>>,
    <<0, 0, 0, 0, 0, 0, 143945778, 651677945, 281429047, 535878743, 264290972, 526964023, 199595821, 597442702, 499113091, 424550935, 458949280>>,
    <<0, 0, 0, 0, 0, 0, 0, 21997789, 294590275, 148640294, 595017589, 210481832, 404203788, 574729546, 160126051, 430102516, 44963712>>,
    <<0, 0, 0, 0, 0, 0, 0, 0, 3361701, 325788598, 30977630, 513969330, 194569730, 164019635, 136596846, 626087230, 503769920>>,
    <<0, 0, 0, 0, 0, 0, 0, 0, 0, 513735, 77223048, 437087610, 300156666, 605448490, 214625350, 141436834, 379377856>>,
    <<0, 0, 0, 0, 0, 0, 0, 0, 0, 0, 78508, 646269101, 118408823, 91512303, 209184527, 413102373, 153715680>>,
    <<0, 0, 0, 0, 0, 0, 0, 0, 0, 0, 0, 11997, 486083817, 3737691, 294005210, 247894721, 289024608>>,
    <<0, 0, 0, 0, 0, 0, 0, 0, 0, 0, 0, 0, 1833, 324463681, 385795061, 551597588, 21339008>>,
    <<0, 0, 0, 0, 0, 0, 0, 0, 0, 0, 0, 0, 0, 280, 127692781, 389432875, 357132832>>,
    <<0, 0, 0, 0, 0, 0, 0, 0, 0, 0, 0, 0, 0, 0, 42, 537767569, 410450016>>,
    <<0, 0, 0, 0, 0, 0, 0, 0, 0, 0, 0, 0, 0, 0, 0, 6, 356826688>>,
    <<0, 0, 0, 0, 0, 0, 0, 0, 0, 0, 0, 0, 0, 0, 0, 0, 1>>
  >>

decTable64 ==
  <<
    <<Dec(2, 49448), Dec(37198, 64065), Dec(1739, 11550), Dec(40215, 57284), Dec(31158, 10883), Dec(24985, 25019), Dec(10358, 89824), Dec(6275, 29458), Dec(38408, 88383), Dec(37281, 67192), Dec(29014, 37456), Dec(38634, 5776), Dec(15407, 39182), Dec(15707, 66848), Dec(0, 0), Dec(0, 0)>>,
    <<Dec(0, 0), Dec(16, 32305), Dec(18827, 80341), Dec(41287, 6713), Dec(10236, 71068), Dec(26184, 21812), Dec(20054, 15586), Dec(10629, 93857), Dec(35772, 21846), Dec(39604, 76767), Dec(16956, 15427), Dec(25970, 60712), Dec(6694, 72826), Dec(1049, 23136), Dec(0, 0), Dec(0, 0)>>,
    <<Dec(0, 0), Dec(0, 0), Dec(106, 81231), Dec(14229, 56801), Dec(24063, 45166), Dec(40586, 71871), Dec(21439, 13881), Dec(41691, 35587), Dec(24141, 4418), Dec(25495, 53452), Dec(9975, 94232), Dec(7133, 40517), Dec(22900, 70198), Dec(11038, 33088), Dec(0, 0), Dec(0, 0)>>,
    <<Dec(0, 0), Dec(0, 0), Dec(0, 0), Dec(698, 94212), Dec(10388, 12943), Dec(17850, 20643), Dec(12856, 19000), Dec(23014, 68615), Dec(34920, 37905), Dec(3146, 10629), Dec(27617, 40102), Dec(34106, 18104), Dec(16995, 16363), Dec(9107, 79968), Dec(0, 0), Dec(0, 0)>>,
    <<Dec(0, 0), Dec(0, 0), Dec(0, 0), Dec(0, 0), Dec(4573, 63084), Dec(9275, 69770), Dec(39761, 6370), Dec(13895, 13021), Dec(21078, 65525), Dec(37166, 79421), Dec(18280, 91393), Dec(20884, 8376), Dec(4391, 56799), Dec(25792, 27194), Dec(0, 0), Dec(0, 0)>>,
    <<Dec(0, 0), Dec(0, 0), Dec(0, 0), Dec(0, 0), Dec(0, 0), Dec(29928, 22783), Dec(3836, 23235), Dec(38628, 31115), Dec(1127, 78334), Dec(3397, 67049), Dec(14472, 50220), Dec(4865, 75164), Dec(34953, 3162), Dec(22099, 46163), Dec(2684, 35456), Dec(0, 0)>>,
    <<Dec(0, 0), Dec(0, 0), Dec(0, 0), Dec(0, 0), Dec(0, 0), Dec(0, 4), Dec(24041, 8010), Dec(29628, 26229), Dec(39980, 86794), Dec(18930, 6839), Dec(22662, 58239), Dec(14294, 30446), Dec(3079, 53032), Dec(23614, 23716), Dec(1761, 60768), Dec(0, 0)>>,
    <<Dec(0, 0), Dec(0, 0), Dec(0, 0), Dec(0, 0), Dec(0, 0), Dec(0, 0), Dec(0, 29), Dec(35965, 90989), Dec(30440, 36677), Dec(13322, 9423), Dec(10144, 20882), Dec(8686, 88145), Dec(42640, 82837), Dec(36887, 71808), Dec(24853, 87264), Dec(0, 0)>>,
    <<Dec(0, 0), Dec(0, 0), Dec(0, 0), Dec(0, 0), Dec(0, 0), Dec(0, 0), Dec(0, 0), Dec(0, 195), Dec(10540, 3707), Dec(37116, 96540), Dec(5825, 74436), Dec(35492, 29270), Dec(10885, 36814), Dec(23384, 40092), Dec(14686, 37184), Dec(0, 0)>>,
    <<Dec(0, 0), Dec(0, 0), Dec(0, 0), Dec(0, 0), Dec(0, 0), Dec(0, 0), Dec(0, 0), Dec(0, 0), Dec(0, 1277), Dec(26503, 97687), Dec(38010, 11509), Dec(20743, 86530), Dec(32482, 44966), Dec(6872, 55411), Dec(29591, 55456), Dec(0, 0)>>,
    <<Dec(0, 0), Dec(0, 0), Dec(0, 0), Dec(0, 0), Dec(0, 0), Dec(0, 0), Dec(0, 0), Dec(0, 0), Dec(0, 0), Dec(0, 8360), Dec(11847, 54854), Dec(30476, 9191), Dec(34183, 94749), Dec(1325, 56120), Dec(11991, 3528), Dec(0, 0)>>,
    <<Dec(0, 0), Dec(0, 0), Dec(0, 0), Dec(0, 0), Dec(0, 0), Dec(0, 0), Dec(0, 0), Dec(0, 0), Dec(0, 0), Dec(0, 0), Dec(0, 54706), Dec(29969, 85344), Dec(18346, 29191), Dec(39649, 63911), Dec(4851, 40318), Dec(10737, 41824)>>,
    <<Dec(0, 0), Dec(0, 0), Dec(0, 0), Dec(0, 0), Dec(0, 0), Dec(0, 0), Dec(0, 0), Dec(0, 0), Dec(0, 0), Dec(0, 0), Dec(0, 0), Dec(3, 57981), Dec(14769, 98812), Dec(33371, 78590), Dec(14833, 38760), Dec(41943, 4000)>>,
    <<Dec(0, 0), Dec(0, 0), Dec(0, 0), Dec(0, 0), Dec(0, 0), Dec(0, 0), Dec(0, 0), Dec(0, 0), Dec(0, 0), Dec(0, 0), Dec(0, 0), Dec(0, 0), Dec(23, 42503), Dec(30524, 66824), Dec(25951, 80627), Dec(178, 25792)>>,
    <<Dec(0, 0), Dec(0, 0), Dec(0, 0), Dec(0, 0), Dec(0, 0), Dec(0, 0), Dec(0, 0), Dec(0, 0), Dec(0, 0), Dec(0, 0), Dec(0, 0), Dec(0, 0), Dec(0, 0), Dec(153, 28518), Dec(19339, 2296), Dec(40639, 20128)>>,
    <<Dec(0, 0), Dec(0, 0), Dec(0, 0), Dec(0, 0), Dec(0, 0), Dec(0, 0), Dec(0, 0), Dec(0, 0), Dec(0, 0), Dec(0, 0), Dec(0, 0), Dec(0, 0), Dec(0, 0), Dec(0, 0), Dec(1003, 4420), Dec(33551, 57504)>>,
    <<Dec(0, 0), Dec(0, 0), Dec(0, 0), Dec(0, 0), Dec(0, 0), Dec(0, 0), Dec(0, 0), Dec(0, 0), Dec(0, 0), Dec(0, 0), Dec(0, 0), Dec(0, 0), Dec(0, 0), Dec(0, 0), Dec(0, 0), Dec(6563, 56768)>>,
    <<Dec(0, 0), Dec(0, 0), Dec(0, 0), Dec(0, 0), Dec(0, 0), Dec(0, 0), Dec(0, 0), Dec(0, 0), Dec(0, 0), Dec(0, 0), Dec(0, 0), Dec(0, 0), Dec(0, 0), Dec(0, 0), Dec(0, 0), Dec(0, 1)>>
  >>

\* table[i][j] with the 0-based indices of the source.
At(table, i, j) == table[i + 1][j + 1]

(***************************************************************************)
(* Encode32 / Encode64                                                     *)
(***************************************************************************)

\* The counting loops "for k = 0; k < n; k++ { if a[k] != 0 { break } }":
\* the value of k after the loop, the first k with a[k] != 0, or n.
CountLeading0s(a, n) ==
  LET stops == {k \in 0..(n - 1) : a[k] # 0}
  IN  IF stops = {} THEN n ELSE Least(stops)

\* The four bytes at in[4*i:] taken least significant byte first.
LittleEndianUint32(in, i) ==
  <<in[4 * i + 1] * 256 + in[4 * i], in[4 * i + 3] * 256 + in[4 * i + 2]>>

\* binary.BigEndian.Uint32(in[4*i:]) as a limb pair.
BigEndianUint32(in, i) ==
  <<in[4 * i + 2] * 256 + in[4 * i + 3], in[4 * i] * 256 + in[4 * i + 1]>>

\* binary.BigEndian.PutUint32: byte k (0..3) of the uint32 v.
BigEndianByte(v, k) ==
  CASE k = 0 -> v[2] \div 256
    [] k = 1 -> v[2] % 256
    [] k = 2 -> v[1] \div 256
    [] k = 3 -> v[1] % 256

\* acc after the loop "for i := from; i < to; i++ { acc += uint64(limbs[i])
\* * uint64(table[i][j]) }".  The passes run in the order of the source; a
\* range of several passes is run as its first half followed by its second.
RECURSIVE EncAccumulate(_, _, _, _, _, _)
EncAccumulate(limbs, table, j, from, to, acc) ==
  IF to <= from THEN acc
  ELSE IF to = from + 1
       THEN Add64(acc, Mul32(limbs[from], U32(At(table, from, j))))
       ELSE LET mid == (from + to) \div 2
                half == EncAccumulate(limbs, table, j, from, mid, acc)
            IN  After(half, EncAccumulate(limbs, table, j, mid, to, half))

\* The carry loop "for i := hi; i > lo; i-- { intermediate[i-1] +=
\* intermediate[i] / r1Div; intermediate[i] %= r1Div }" (lo is 0 in the
\* source), run in the same way.
RECURSIVE ReduceR1(_, _, _)
ReduceR1(intermediate, hi, lo) ==
  IF hi <= lo THEN intermediate
  ELSE IF hi = lo + 1
       THEN LET d == DivModR1(intermediate[hi])
            IN  [intermediate EXCEPT ![hi - 1] = Add64(intermediate[hi - 1], d.q),
                                     ![hi] = Ext64(d.r)]
       ELSE LET mid == (hi + lo) \div 2
                upper == ReduceR1(intermediate, hi, mid)
            IN  After(upper, ReduceR1(upper, mid, lo))

\* uint32(x) of a uint64 as an integer (the model's integers hold it: every
\* value this is applied to is below 2^31).
Uint32Of(x) == x[1] + Limb * x[2]

\* rawBase58 of the intermediate array: five base 58 digits per entry.
RawDigits(intermediate, intersz) ==
  [k \in 0..(5 * intersz - 1) |->
     LET v == Uint32Of(intermediate[k \div 5])
     IN  CASE k % 5 = 4 -> (v \div 1) % 58
           [] k % 5 = 3 -> (v \div 58) % 58
           [] k % 5 = 2 -> (v \div 3364) % 58
           [] k % 5 = 1 -> (v \div 195112) % 58
           [] k % 5 = 0 -> (v \div 11316496) % 256]

\* The output loop with one more digit skipped than the difference of the
\* two leading zero counts.
EmitTextOneShort(out, outsz, rawBase58, rawsz, skip) ==
  IF skip + 1 < 0 \/ skip + 1 > rawsz \/ rawsz - (skip + 1) > outsz
  THEN [ret |-> "panic", out |-> out, n |-> 0]
  ELSE [ret |-> "ok",
        out |-> [i \in 0..(outsz - 1) |->
                   IF i < rawsz - (skip + 1) THEN AlphabetAt(rawBase58[i + skip + 1])
                   ELSE out[i]],
        n |-> rawsz - (skip + 1)]

\* The output loop "skip := rawLeading0s - inLeading0s; for i := uint(0);
\* i < rawsz-skip; i++ { out[i] = alphabet[rawBase58[i+skip]] }; return
\* rawsz-skip" on an output array of outsz bytes.  skip is a uint: a
\* negative difference wraps and the first read rawBase58[i+skip] is out of
\* range; with rawsz-skip > outsz the write out[outsz] is out of range
\* after out[0..outsz-1] were written.  Both are Go run-time panics.
EmitText(out, outsz, rawBase58, rawsz, skip) ==
  IF skip < 0 THEN [ret |-> "panic", out |-> out, n |-> 0]
  ELSE IF rawsz - skip > outsz
       THEN [ret |-> "panic",
             out |-> [i \in 0..(outsz - 1) |-> AlphabetAt(rawBase58[i + skip])],
             n |-> 0]
       ELSE [ret |-> "ok",
             out |-> [i \in 0..(outsz - 1) |->
                        IF i < rawsz - skip THEN AlphabetAt(rawBase58[i + skip])
                        ELSE out[i]],
             n |-> rawsz - skip]

\* func Encode32(out *[44]byte, in [32]byte) uint
Encode32(out, in) ==
  LET inLeading0s == CountLeading0s(in, 32)
      limbs == [i \in 0..7 |-> BigEndianUint32(in, i)]
      acc == [j \in 0..(inter32sz - 1) |->
                IF j = 0 THEN Zero64
                ELSE EncAccumulate(limbs, encTable32, j - 1, 0, 8, Zero64)]
      intermediate == ReduceR1(acc, 8, 0)
      rawBase58 == RawDigits(intermediate, inter32sz)
      rawLeading0s == CountLeading0s(rawBase58, enc32sz)
  IN  After(acc, After(intermediate,
        EmitText(out, 44, rawBase58, enc32sz, rawLeading0s - inLeading0s)))

\* func Encode64(out *[88]byte, in [64]byte) uint
Encode64(out, in) ==
  LET inLeading0s == CountLeading0s(in, 64)
      limbs == [i \in 0..15 |-> BigEndianUint32(in, i)]
      first == [j \in 0..(inter64sz - 1) |->
                  IF j = 0 THEN Zero64
                  ELSE EncAccumulate(limbs, encTable64, j - 1, 0, 8, Zero64)]
      \* Mini-reduction
      mini == DivModR1(first[16])
      reduced == [first EXCEPT ![15] = Add64(first[15], mini.q), ![16] = Ext64(mini.r)]
      \* Finish iterations
      acc == [j \in 0..(inter64sz - 1) |->
                IF j = 0 THEN reduced[0]
                ELSE EncAccumulate(limbs, encTable64, j - 1, 8, bin64sz, reduced[j])]
      intermediate == ReduceR1(acc, inter64sz - 1, 0)
      rawBase58 == RawDigits(intermediate, inter64sz)
      rawLeading0s == CountLeading0s(rawBase58, raw64sz)
  IN  After(first, After(acc, After(intermediate,
        EmitText(out, 88, rawBase58, raw64sz, rawLeading0s - inLeading0s))))

(***************************************************************************)
(* Decode32 / Decode64                                                     *)
(***************************************************************************)

\* encoded[k] of a text (a sequence of byte values), 0-based as in the source.
ByteAt(encoded, k) == encoded[k + 1]

\* One pass of the validation loop, for the character c:
\*   idx := int(c) - int(inverseLUTOffset)
\*   if idx > int(inverseLUTSentinel) { idx = int(inverseLUTSentinel) }
\*   if inverseLUT[idx] == invalidChar { return false }
\* "ok" when the loop goes on, "false" for return false, "panic" when
\* inverseLUT[idx] is read out of range.
ValidateChar(c) ==
  LET idx0 == c - inverseLUTOffset
      idx == IF idx0 > inverseLUTSentinel THEN inverseLUTSentinel ELSE idx0
      v == LutAt(idx)
  IN  IF v < 0 THEN "panic"
      ELSE IF v = invalidChar THEN "false"
      ELSE "ok"

\* The validation loop "for _, c := range encoded": it ends at the first
\* character that does not pass.
Validate(encoded) ==
  LET stops == {k \in 0..(Len(encoded) - 1) : ValidateChar(ByteAt(encoded, k)) # "ok"}
  IN  IF stops = {} THEN "ok" ELSE ValidateChar(ByteAt(encoded, Least(stops)))

\* rawBase58: the digits of the text, left-padded with zero digits to
\* rawsz entries; the index encoded[..]-inverseLUTOffset is a uint8.
RawOfText(encoded, rawsz) ==
  LET prepend0 == rawsz - Len(encoded)
  IN  [j \in 0..(rawsz - 1) |->
         IF j >= prepend0
         THEN LutAt((ByteAt(encoded, j - prepend0) - inverseLUTOffset) % 256)
         ELSE 0]

\* intermediate[i] of Decode: five raw digits weighted 58^4 .. 58^0, as uint64.
InterOfRaw(rawBase58, intersz) ==
  [i \in 0..(intersz - 1) |->
     Ext64(U32(rawBase58[5 * i + 0] * 11316496 +
               rawBase58[5 * i + 1] * 195112 +
               rawBase58[5 * i + 2] * 3364 +
               rawBase58[5 * i + 3] * 58 +
               rawBase58[5 * i + 4]))]

\* acc after the loop "for i := from; i < to; i++ { acc +=
\* uint64(intermediate[i]) * uint64(table[i][j]) }", the passes in the order
\* of the source, a range of several passes as its two halves in turn.
RECURSIVE DecAccumulate(_, _, _, _, _, _)
DecAccumulate(intermediate, table, j, from, to, acc) ==
  IF to <= from THEN acc
  ELSE IF to = from + 1
       THEN Add64(acc, Mul32(<<intermediate[from][1], intermediate[from][2]>>,
                             At(table, from, j)))
       ELSE LET mid == (from + to) \div 2
                half == DecAccumulate(intermediate, table, j, from, mid, acc)
            IN  After(half, DecAccumulate(intermediate, table, j, mid, to, half))

\* Whether some "acc +=" of that loop wraps.
RECURSIVE DecAccumulateWraps(_, _, _, _, _, _)
DecAccumulateWraps(intermediate, table, j, from, to, acc) ==
  IF to <= from THEN FALSE
  ELSE IF to = from + 1
       THEN Carry64(acc, Mul32(<<intermediate[from][1], intermediate[from][2]>>,
                               At(table, from, j)))
       ELSE LET mid == (from + to) \div 2
                half == DecAccumulate(intermediate, table, j, from, mid, acc)
            IN  After(half, \/ DecAccumulateWraps(intermediate, table, j, from, mid, acc)
                            \/ DecAccumulateWraps(intermediate, table, j, mid, to, half))

\* The carry loop "for i := hi; i > lo; i-- { binary_[i-1] += binary_[i] >>
\* 32; binary_[i] &= 0xFFFFFFFF }" (lo is 0 in the source), run in the same
\* way.
RECURSIVE Reduce32(_, _, _)
Reduce32(binary_, hi, lo) ==
  IF hi <= lo THEN binary_
  ELSE IF hi = lo + 1
       THEN [binary_ EXCEPT ![hi - 1] = Add64(binary_[hi - 1], Shr32(binary_[hi])),
                            ![hi] = Lo32(binary_[hi])]
       ELSE LET mid == (hi + lo) \div 2
                upper == Reduce32(binary_, hi, mid)
            IN  After(upper, Reduce32(upper, mid, lo))

\* Whether some "binary_[i-1] +=" of that loop wraps.
RECURSIVE Reduce32Wraps(_, _, _)
Reduce32Wraps(binary_, hi, lo) ==
  IF hi <= lo THEN FALSE
  ELSE IF hi = lo + 1
       THEN Carry64(binary_[hi - 1], Shr32(binary_[hi]))
       ELSE LET mid == (hi + lo) \div 2
                upper == Reduce32(binary_, hi, mid)
            IN  After(upper, \/ Reduce32Wraps(binary_, hi, mid)
                             \/ Reduce32Wraps(upper, mid, lo))

\* The loop "for c = 0; c < n; c++ { if out[c] != 0 { break }; if
\* encoded[c] != '1' { return false } }": the final c, or -1 for return false.
LeadingLoop(out, encoded, n) ==
  LET stops == {c \in 0..(n - 1) : out[c] # 0 \/ ByteAt(encoded, c) # 49}
  IN  IF stops = {} THEN n
      ELSE IF out[Least(stops)] # 0 THEN Least(stops)
      ELSE -1

\* The leading '1' check without the test that follows its loop.
LeadingOKLoopOnly(out, encoded, n) == LeadingLoop(out, encoded, n) >= 0

\* The leading '1' check that ends Decode: FALSE where the code returns false.
LeadingOK(out, encoded, n) ==
  LET leadingZeroCnt == LeadingLoop(out, encoded, n)
  IN  /\ leadingZeroCnt >= 0
      /\ ~(leadingZeroCnt < Len(encoded) /\ ByteAt(encoded, leadingZeroCnt) = 49)

\* The end of Decode with *out written ahead of the overflow check.
DecodeFinishWriteFirst(out, encoded, binary_, binsz) ==
  LET packed == [k \in 0..(4 * binsz - 1) |->
                   BigEndianByte(binary_[k \div 4], k % 4)]
  IN  IF Above32(binary_[0]) THEN [ret |-> "false", why |-> "overflow", out |-> packed]
      ELSE IF LeadingOK(packed, encoded, 4 * binsz)
           THEN [ret |-> "true", why |-> "done", out |-> packed]
           ELSE [ret |-> "false", why |-> "leading", out |-> packed]

\* The end of Decode, from the overflow check on: ret is the returned bool,
\* out the array *out as it is left, why the return statement taken.
DecodeFinish(out, encoded, binary_, binsz) ==
  IF Above32(binary_[0]) THEN [ret |-> "false", why |-> "overflow", out |-> out]
  ELSE LET packed == [k \in 0..(4 * binsz - 1) |->
                        BigEndianByte(binary_[k \div 4], k % 4)]
       IN  IF LeadingOK(packed, encoded, 4 * binsz)
           THEN [ret |-> "true", why |-> "done", out |-> packed]
           ELSE [ret |-> "false", why |-> "leading", out |-> packed]

\* The part of Decode after the length check, for the sizes and the table
\* of either width.  wrapped, not part of the program's state, records
\* whether a uint64 addition of the two loops wrapped.
DecodeBody(out, encoded, table, intersz, binsz) ==
  LET valid == Validate(encoded)
  IN  IF valid # "ok"
      THEN [ret |-> valid, why |-> "character", out |-> out, wrapped |-> FALSE]
      ELSE LET rawBase58 == RawOfText(encoded, 5 * intersz)
               intermediate == InterOfRaw(rawBase58, intersz)
               acc == [j \in 0..(binsz - 1) |->
                         DecAccumulate(intermediate, table, j, 0, intersz, Zero64)]
               binary_ == Reduce32(acc, binsz - 1, 0)
               wraps == \/ \E j \in 0..(binsz - 1) :
                             DecAccumulateWraps(intermediate, table, j, 0, intersz, Zero64)
                        \/ Reduce32Wraps(acc, binsz - 1, 0)
               done == DecodeFinish(out, encoded, binary_, binsz)
           IN  After(intermediate, After(acc, After(binary_,
                 [ret |-> done.ret, why |-> done.why, out |-> done.out,
                  wrapped |-> wraps])))

\* func Decode32(out *[32]byte, encoded []byte) (ok bool)
Decode32(out, encoded) ==
  IF Len(encoded) < 32 \/ Len(encoded) > 44
  THEN [ret |-> "false", why |-> "length", out |-> out, wrapped |-> FALSE]
  ELSE DecodeBody(out, encoded, decTable32, inter32sz, bin32sz)

\* func Decode64(out *[64]byte, encoded []byte) (ok bool)
Decode64(out, encoded) ==
  IF Len(encoded) < 64 \/ Len(encoded) > 88
  THEN [ret |-> "false", why |-> "length", out |-> out, wrapped |-> FALSE]
  ELSE DecodeBody(out, encoded, decTable64, inter64sz, bin64sz)

\* Encode taking every slice of 32 bytes or more by its first 32 or 64.
EncodeAtLeast(buf) ==
  IF Cardinality(DOMAIN buf) >= 64 THEN Encode64([k \in 0..87 |-> 0], buf)
  ELSE IF Cardinality(DOMAIN buf) >= 32 THEN Encode32([k \in 0..43 |-> 0], buf)
  ELSE [ret |-> "panic", out |-> <<>>, n |-> 0]

\* func Encode(buf []byte) string: what Encode32 / Encode64 leave on a
\* fresh output array (the string is its first n bytes), or the panic of
\* the default case.
Encode(buf) ==
  IF Cardinality(DOMAIN buf) = 32 THEN Encode32([k \in 0..43 |-> 0], buf)
  ELSE IF Cardinality(DOMAIN buf) = 64 THEN Encode64([k \in 0..87 |-> 0], buf)
  ELSE [ret |-> "panic", out |-> <<>>, n |-> 0]

(***************************************************************************)
(* package sealevel: Params.Serialize and Params.Update                    *)
(*                                                                         *)
(* A Params value is a record [Accounts, Data, ProgramID]; Accounts is the *)
(* sequence of AccountParam records (position i of the source is element   *)
(* i+1).  Key, Owner and ProgramID are sequences of 32 bytes, Data is a    *)
(* byte sequence, and the uint64 fields Lamports and RentEpoch are kept as *)
(* their 8 little-endian bytes, which is what binary.Write puts in the     *)
(* block and binary.Read takes from it.                                    *)
(***************************************************************************)

Min(a, b) == IF a < b THEN a ELSE b

ReallocSpace == 1024 * 10
ReallocAlign == 8

\* binary.Write(buf, binary.LittleEndian, uint64(n)) for a length n.
LittleEndian64(n) ==
  <<n % 256, (n \div 256) % 256, (n \div 65536) % 256, (n \div 16777216) % 256, 0, 0, 0, 0>>

\* binary.Write of a bool: one byte, 1 or 0.
BoolByte(b) == IF b THEN 1 ELSE 0

\* bytes.Buffer.Grow(n): room for n more bytes is reserved; the length and
\* the contents of the buffer stay as they are.
Grow(buf, n) == buf

\* The body of the loop "for i := range p.Accounts" for a duplicate account.
SerializeDuplicate(buf, acc) == Grow(buf \o <<acc.DuplicateIndex>>, 7)

\* The body of the loop for any other account, up to the account data.
SerializeHead(buf, acc) ==
  Grow(buf \o <<255, BoolByte(acc.IsSigner), BoolByte(acc.IsWritable),
                BoolByte(acc.IsExecutable)>>, 4)
    \o acc.Key \o acc.Owner \o acc.Lamports
    \o LittleEndian64(Len(acc.Data)) \o acc.Data

\* acc.Padding = ReallocSpace + 1 + ((buf.Len() - 1) / ReallocAlign)
PaddingFor(buf) == ReallocSpace + 1 + ((Len(buf) - 1) \div ReallocAlign)

\* The loop "for i := range p.Accounts" from position i on.  marks and lens
\* record where each account's first byte and its data length field were
\* put (-1: no such field); they are not part of the program's state.
RECURSIVE SerializeAccounts(_, _, _, _, _)
SerializeAccounts(accounts, i, buf, marks, lens) ==
  IF i >= Len(accounts)
  THEN [buf |-> buf, Accounts |-> accounts, marks |-> marks, lens |-> lens]
  ELSE LET acc == accounts[i + 1]
       IN  IF acc.IsDuplicate
           THEN SerializeAccounts(accounts, i + 1, SerializeDuplicate(buf, acc),
                                  Append(marks, Len(buf)), Append(lens, -1))
           ELSE LET head == SerializeHead(buf, acc)
                    padding == PaddingFor(head)
                IN  SerializeAccounts([accounts EXCEPT ![i + 1].Padding = padding],
                                      i + 1,
                                      Grow(head, padding) \o acc.RentEpoch,
                                      Append(marks, Len(buf)),
                                      Append(lens, Len(head) - Len(acc.Data) - 8))

\* func (p *Params) Serialize(buf *bytes.Buffer): the buffer and the
\* Params as they are left.
Serialize(p) ==
  LET done == SerializeAccounts(p.Accounts, 0, LittleEndian64(Len(p.Accounts)), <<>>, <<>>)
  IN  [buf |-> done.buf \o LittleEndian64(Len(p.Data)) \o p.Data \o p.ProgramID,
       p |-> [p EXCEPT !.Accounts = done.Accounts],
       marks |-> done.marks,
       lens |-> done.lens]

\* A *bytes.Reader is [s, i]: the bytes and the read position.
Remaining(r) == IF r.i >= Len(r.s) THEN 0 ELSE Len(r.s) - r.i

\* (*bytes.Reader).ReadByte
ReadByte(r) ==
  IF r.i >= Len(r.s) THEN [err |-> "EOF", b |-> 0, r |-> r]
  ELSE [err |-> "nil", b |-> r.s[r.i + 1], r |-> [r EXCEPT !.i = r.i + 1]]

\* (*bytes.Reader).Read(b): copies what is left, at most len(b) bytes, over
\* the front of b; old is b before the call.
ReadInto(r, old) ==
  LET n == Min(Len(old), Remaining(r))
  IN  [val |-> [j \in 1..Len(old) |-> IF j <= n THEN r.s[r.i + j] ELSE old[j]],
       r |-> [r EXCEPT !.i = r.i + n]]

\* io.ReadFull(r, bs) with len(bs) = n, as binary.Read does it: the bytes
\* left are consumed even when there are fewer than n of them.
ReadFull(r, n) ==
  LET k == Min(n, Remaining(r))
  IN  [ok |-> k = n, bytes |-> SubSeq(r.s, r.i + 1, r.i + k), r |-> [r EXCEPT !.i = r.i + k]]

\* binary.Read(buf, binary.LittleEndian, &b) for a bool b (old its value
\* before): on a failed read the value is left alone.
ReadBool(r, old) ==
  LET f == ReadFull(r, 1)
  IN  [val |-> IF f.ok THEN f.bytes[1] # 0 ELSE old, r |-> f.r]

\* binary.Read(buf, binary.LittleEndian, &x) for a uint64 x, likewise.
ReadUint64(r, old) ==
  LET f == ReadFull(r, 8)
  IN  [val |-> IF f.ok THEN f.bytes ELSE old, r |-> f.r]

\* (*bytes.Reader).Seek(off, io.SeekCurrent): a position past the end is
\* accepted, a negative one is an error that moves nothing.
SeekCurrent(r, off) == IF r.i + off < 0 THEN r ELSE [r EXCEPT !.i = r.i + off]

\* io.ReadAll(io.LimitReader(buf, n)): the next n bytes, or all that is left.
ReadAllLimit(r, n) ==
  LET k == Min(n, Remaining(r))
  IN  [val |-> SubSeq(r.s, r.i + 1, r.i + k), r |-> [r EXCEPT !.i = r.i + k]]

\* A uint64 given by its 8 little-endian bytes: whether it is below 2^31,
\* and its value when it is.  Every length of the model is below 2^31 -
\* ReallocSpace, so a uint64 that is not small exceeds them all.
Small64(b) == b[4] < 128 /\ b[5] = 0 /\ b[6] = 0 /\ b[7] = 0 /\ b[8] = 0
Value64(b) == b[1] + 256 * b[2] + 65536 * b[3] + 16777216 * b[4]

Zero8 == <<0, 0, 0, 0, 0, 0, 0, 0>>

\* What Update returns with: the error, the Params as left, the reader,
\* and, not part of the program's state, the position at of the account
\* the loop stood at and the marker byte idx read for it (-1: none read).
Returned(err, p, r, at, idx) == [err |-> err, p |-> p, r |-> r, at |-> at, idx |-> idx]

\* if (!acc.IsDuplicate && idx != 0xFF) || acc.DuplicateIndex != idx
OrderChanged(acc, idx) ==
  (~acc.IsDuplicate /\ idx # 255) \/ acc.DuplicateIndex # idx

\* The loop "for i := 0; true; i++" of Update from position i on.  The loop
\* has no break and its condition is true: it is left by a return only, and
\* the statements after it (the Seek over the instruction data, the read of
\* ProgramID, "return err") are never reached.
RECURSIVE UpdateLoop(_, _, _)
UpdateLoop(p, r, i) ==
  IF i >= Len(p.Accounts)
  THEN Returned("number of accounts changed", p, r, i, -1)
  ELSE
    LET acc == p.Accounts[i + 1]
        m == ReadByte(r)
    IN
    IF m.err # "nil" THEN Returned(m.err, p, m.r, i, -1)
    ELSE IF OrderChanged(acc, m.b) THEN Returned("account order changed", p, m.r, i, m.b)
    ELSE IF m.b # 255 THEN UpdateLoop(p, m.r, i + 1)
    ELSE
      LET signer == ReadBool(m.r, acc.IsSigner)
          writable == ReadBool(signer.r, acc.IsWritable)
          executable == ReadBool(writable.r, acc.IsExecutable)
          key == ReadInto(SeekCurrent(executable.r, 4), acc.Key)
          owner == ReadInto(key.r, acc.Owner)
          lamports == ReadUint64(owner.r, acc.Lamports)
          oldLen == Len(acc.Data)
          newLen == ReadUint64(lamports.r, Zero8)
          read == [acc EXCEPT !.IsSigner = signer.val, !.IsWritable = writable.val,
                              !.IsExecutable = executable.val, !.Key = key.val,
                              !.Owner = owner.val, !.Lamports = lamports.val]
          p1 == [p EXCEPT !.Accounts[i + 1] = read]
      IN
      IF Small64(newLen.val) /\ Value64(newLen.val) < oldLen
      THEN Returned("attempted to shrink account", p1, newLen.r, i, m.b)
      ELSE IF ~Small64(newLen.val) \/ Value64(newLen.val) > oldLen + ReallocSpace
      THEN Returned("attempted to grow account too much", p1, newLen.r, i, m.b)
      ELSE
        LET data == ReadAllLimit(newLen.r, Value64(newLen.val))
            rent == ReadUint64(SeekCurrent(data.r,
                                           acc.Padding - (Value64(newLen.val) - oldLen)),
                               acc.RentEpoch)
            p2 == [p EXCEPT !.Accounts[i + 1] =
                     [read EXCEPT !.Data = data.val, !.RentEpoch = rent.val]]
        IN  UpdateLoop(p2, rent.r, i + 1)

\* func (p *Params) Update(buf *bytes.Reader) error
Update(p, r) == UpdateLoop(p, r, 0)

(***************************************************************************)
(* State.  One run exercises one package.                                  *)
(*                                                                         *)
(* A base58 run encodes an input, hands Decode the text (as produced, or   *)
(* altered: Decode's argument is any byte string a caller passes) and      *)
(* records the result.  A sealevel run serializes a Params value, hands    *)
(* Update a reader over the block (as produced, or edited the way a        *)
(* program or a short read would leave it) and records the result.         *)
(***************************************************************************)
VARIABLES
  pc,       \* where the run stands
  width,    \* 32 or 64: which pair Encode32/Decode32 or Encode64/Decode64 runs
  in,       \* the input array given to Encode
  enc,      \* what Encode left: [ret, out, n] (out the output array, n the length returned)
  encoded,  \* the text given to Decode
  how,      \* how encoded was obtained from Encode's text, or the slice Encode got
  out0,     \* the array *out before Decode is called
  dec,      \* what Decode left: [ret, why, out, wrapped]
  params,   \* the Params value Serialize and Update are called on
  before,   \* params as it was before Serialize
  block,    \* what Serialize left: [buf, marks, lens]
  src,      \* the bytes the reader handed to Update is over
  edit,     \* how src was obtained from the buffer
  res       \* what Update left: [err, at, idx, start]

base58vars == <<width, in, enc, encoded, how, out0, dec>>
sealevelvars == <<params, before, block, src, edit, res>>
vars == <<pc, width, in, enc, encoded, how, out0, dec, params, before, block, src, edit, res>>

\* Inputs: MaxLead0 bounds the leading zero runs tried from either end
\* (0..MaxLead0 and N-MaxLead0..N zero bytes), MaxPattern the byte patterns
\* that fill the rest, MaxPos the number of text positions altered from
\* either end.
MaxLead0 == 2
MaxPattern == 5
MaxPos == 1

Widths == {32, 64}

LeadChoices(n) == (0..MaxLead0) \cup {n - k : k \in 0..MaxLead0}

PatternByte(pat, k, n) ==
  CASE pat = 0 -> 255
    [] pat = 1 -> IF k = n - 1 THEN 1 ELSE 0
    [] pat = 2 -> IF k = n - 1 THEN 254 ELSE 255
    [] OTHER -> (k * (2 * pat + 1) * 29 + pat * 101 + 7) % 256

Inputs(n) ==
  {[k \in 0..(n - 1) |-> IF k < lead THEN 0 ELSE PatternByte(pat, k, n)] :
     lead \in LeadChoices(n), pat \in 0..MaxPattern}

Filled(n, b) == [k \in 0..(n - 1) |-> b]

\* Bytes written over a character of the text: outside the alphabet (below
\* '1': 0, ' ', '+', '/', '0'; between the ranges: ':', '@', '[', '`'; the
\* excluded 'I', 'O', 'l'; above 'z': '{', 0x80, 0xFF) and inside it ('1',
\* '2', 'z').
AlterBytes == {0, 32, 43, 47, 48, 58, 64, 91, 96, 73, 79, 108, 123, 128, 255, 49, 50, 122}

Unaltered == [kind |-> "none", at |-> 0, c |-> 0]

Alterations(text) ==
  {[kind |-> k, at |-> 0, c |-> 0] : k \in {"prepend1", "drop1", "allz", "short", "long"}}
  \cup {[kind |-> "set", at |-> p, c |-> b] :
          p \in {q \in (0..(MaxPos - 1)) \cup {Len(text) - 1 - r : r \in 0..(MaxPos - 1)} :
                   q >= 0 /\ q < Len(text)},
          b \in AlterBytes}

\* The altered text: one more leading '1'; the first character dropped;
\* every character 'z'; cut to N-1 characters; padded with 'z' to one
\* more than the longest admissible length; one character overwritten.
Alter(text, a, n) ==
  CASE a.kind = "prepend1" -> <<49>> \o text
    [] a.kind = "drop1" -> Tail(text)
    [] a.kind = "allz" -> [i \in 1..Len(text) |-> 122]
    [] a.kind = "short" -> SubSeq(text, 1, n - 1)
    [] a.kind = "long" -> [i \in 1..(n + (n \div 8) * 3 + 1) |->
                             IF i <= Len(text) THEN text[i] ELSE 122]
    [] a.kind = "set" -> [text EXCEPT ![a.at + 1] = a.c]
    [] OTHER -> text

\* string(out[:n]) of an Encode result.
TextOf(e) == [i \in 1..e.n |-> e.out[i - 1]]

NoResult == [ret |-> "none"]


\* The values *out holds before Decode is called.
OutFills == {0, 170}

NoParams == [Accounts |-> <<>>, Data |-> <<>>, ProgramID |-> <<>>]
NoBlock == [buf |-> <<>>, marks |-> <<>>, lens |-> <<>>]
NoEdit == [kind |-> "none", at |-> 0, n |-> 0, bytes |-> <<>>]

Base58Idle ==
  /\ width = 0 /\ in = <<>> /\ enc = NoResult /\ encoded = <<>>
  /\ how = Unaltered /\ out0 = <<>> /\ dec = NoResult

SealevelIdle ==
  /\ params = NoParams /\ before = NoParams /\ block = NoBlock
  /\ src = <<>> /\ edit = NoEdit /\ res = NoResult

InitBase58 ==
  /\ pc = "start"
  /\ width \in Widths
  /\ in \in Inputs(width)
  /\ out0 \in {Filled(width, b) : b \in OutFills}
  /\ enc = NoResult
  /\ encoded = <<>>
  /\ how = Unaltered
  /\ dec = NoResult
  /\ SealevelIdle

\* outLen := Encode32(&out, in) on a fresh "var out [44]byte".
CallEncode32 ==
  /\ pc = "start" /\ width = 32
  /\ enc' = Encode32(Filled(44, 0), in)
  /\ encoded' = IF enc'.ret = "ok" THEN TextOf(enc') ELSE <<>>
  /\ pc' = "encoded"
  /\ UNCHANGED <<width, in, how, out0, dec>>
  /\ UNCHANGED sealevelvars

\* outLen := Encode64(&out, in) on a fresh "var out [88]byte".
CallEncode64 ==
  /\ pc = "start" /\ width = 64
  /\ enc' = Encode64(Filled(88, 0), in)
  /\ encoded' = IF enc'.ret = "ok" THEN TextOf(enc') ELSE <<>>
  /\ pc' = "encoded"
  /\ UNCHANGED <<width, in, how, out0, dec>>
  /\ UNCHANGED sealevelvars

\* The caller passes Decode another text than the one Encode produced.
AlterText ==
  /\ pc = "encoded" /\ enc.ret = "ok"
  /\ \E a \in Alterations(encoded) :
       /\ how' = a
       /\ encoded' = Alter(encoded, a, width)
  /\ pc' = "altered"
  /\ UNCHANGED <<width, in, enc, out0, dec>>
  /\ UNCHANGED sealevelvars

\* ok := Decode32(&out, encoded)
CallDecode32 ==
  /\ pc \in {"encoded", "altered"} /\ enc.ret = "ok" /\ width = 32
  /\ dec' = Decode32(out0, encoded)
  /\ pc' = "decoded"
  /\ UNCHANGED <<width, in, enc, encoded, how, out0>>
  /\ UNCHANGED sealevelvars

\* ok := Decode64(&out, encoded)
CallDecode64 ==
  /\ pc \in {"encoded", "altered"} /\ enc.ret = "ok" /\ width = 64
  /\ dec' = Decode64(out0, encoded)
  /\ pc' = "decoded"
  /\ UNCHANGED <<width, in, enc, encoded, how, out0>>
  /\ UNCHANGED sealevelvars

\* The lengths of the slices handed to Encode.
SliceLens == {0, 1, 31, 32, 33, 63, 64, 65}

\* buf of n bytes: in[:n], followed by zero bytes past the end of in.
SliceOf(n) == [k \in 0..(n - 1) |-> IF k < width THEN in[k] ELSE 0]

\* s := Encode(buf)
CallEncode ==
  /\ pc = "start"
  /\ \E n \in SliceLens :
       /\ enc' = Encode(SliceOf(n))
       /\ how' = [kind |-> "slice", at |-> n, c |-> 0]
  /\ encoded' = IF enc'.ret = "ok" THEN TextOf(enc') ELSE <<>>
  /\ pc' = "dispatched"
  /\ UNCHANGED <<width, in, out0, dec>>
  /\ UNCHANGED sealevelvars

NextBase58 ==
  \/ CallEncode
  \/ CallEncode32
  \/ CallEncode64
  \/ AlterText
  \/ CallDecode32
  \/ CallDecode64

SpecBase58 == InitBase58 /\ [][NextBase58]_vars

(***************************************************************************)
(* Sealevel runs.                                                          *)
(***************************************************************************)

\* Params values: up to MaxAccounts accounts, each with up to MaxData data
\* bytes; MaxGrow bounds the bytes a program adds to an account.
MaxAccounts == 2
MaxData == 1
MaxGrow == 2

Key32(seed) == [j \in 1..32 |-> (seed * 37 + j) % 256]

\* An AccountParam value for position i.  Padding starts at the zero value:
\* it is "ignored, written by serializer".
Account(isDuplicate, duplicateIndex, i, dataLen) ==
  [IsDuplicate |-> isDuplicate, DuplicateIndex |-> duplicateIndex,
   IsSigner |-> i % 2 = 0, IsWritable |-> TRUE, IsExecutable |-> FALSE,
   Key |-> Key32(i + 1), Owner |-> Key32(i + 101),
   Lamports |-> <<i + 1, 2, 0, 0, 0, 0, 0, 0>>,
   Data |-> [j \in 1..dataLen |-> 64 + j],
   Padding |-> 0,
   RentEpoch |-> <<i + 3, 0, 0, 0, 0, 0, 0, 0>>]

\* Position i holds an account of its own, its DuplicateIndex the zero value
\* or 0xFF, or a duplicate of an earlier position.
AccountChoices(i) ==
  {Account(FALSE, d, i, n) : d \in {0, 255}, n \in 0..MaxData}
  \cup {Account(TRUE, j, i, 0) : j \in 0..(i - 1)}

RECURSIVE AccountLists(_)
AccountLists(n) ==
  IF n = 0 THEN {<<>>}
  ELSE {Append(l, a) : l \in AccountLists(n - 1), a \in AccountChoices(n - 1)}

ParamsChoices ==
  {[Accounts |-> l, Data |-> <<209, 210>>, ProgramID |-> Key32(7)] :
     l \in UNION {AccountLists(n) : n \in 0..MaxAccounts}}

\* The positions of the accounts that are not duplicates.
Primaries(p) == {i \in 0..(Len(p.Accounts) - 1) : ~p.Accounts[i + 1].IsDuplicate}

\* The values written over an account's data length field, oldLen being the
\* length Serialize wrote: smaller, larger within ReallocSpace, at the
\* limit, past it, and past 2^32.
LenFields(oldLen) ==
  {LittleEndian64(n) : n \in {m \in {0, oldLen - 1, oldLen + 1, oldLen + ReallocSpace,
                                      oldLen + ReallocSpace + 1} : m >= 0 /\ m # oldLen}}
  \cup {<<0, 0, 0, 0, 1, 0, 0, 0>>, <<255, 255, 255, 255, 255, 255, 255, 255>>}

\* The bytes a program appends to an account's data.
NewData(g) == [j \in 1..g |-> 144 + j]

\* n zero bytes.
Zeros(n) == [j \in 1..n |-> 0]

\* The record of account i of p the way Update steps through it: the first
\* byte; for an account of its own the three flags, the 4 bytes Update
\* seeks over, Key, Owner, Lamports, the data length, the data (grown bytes
\* more, taken out of the padding), the rest of the Padding bytes Update
\* seeks over, and RentEpoch.  A duplicate's record is stride bytes long.
LaidOutRecord(acc, stride, grown) ==
  IF acc.IsDuplicate THEN <<acc.DuplicateIndex>> \o Zeros(stride - 1)
  ELSE <<255, BoolByte(acc.IsSigner), BoolByte(acc.IsWritable), BoolByte(acc.IsExecutable)>>
         \o Zeros(4) \o acc.Key \o acc.Owner \o acc.Lamports
         \o LittleEndian64(Len(acc.Data) + Len(grown)) \o acc.Data \o grown
         \o Zeros(acc.Padding - Len(grown)) \o acc.RentEpoch

RECURSIVE LaidOutRecords(_, _, _, _, _)
LaidOutRecords(p, i, stride, at, grown) ==
  IF i >= Len(p.Accounts) THEN <<>>
  ELSE LaidOutRecord(p.Accounts[i + 1], stride, IF i = at THEN grown ELSE <<>>)
         \o LaidOutRecords(p, i + 1, stride, at, grown)

\* A whole block laid out that way for p, account at grown by the given bytes.
LaidOut(p, stride, at, grown) ==
  LittleEndian64(Len(p.Accounts)) \o LaidOutRecords(p, 0, stride, at, grown)
    \o LittleEndian64(Len(p.Data)) \o p.Data \o p.ProgramID

\* The edits of a block b == [buf, marks, lens] serialized from p: cut to
\* its first at bytes; the first byte of account at overwritten; the data
\* length field of account at overwritten; account at grown by n bytes put
\* after its data, its length field raised by n; the block replaced by one
\* laid out the way Update steps through it, duplicate records 8 bytes
\* ("layout8") or 1 byte ("layout1") long, no account grown (at = -1) or
\* account at grown by n bytes.
Edits(p, b) ==
  {[kind |-> "cut", at |-> t, n |-> 0, bytes |-> <<>>] : t \in 0..(Len(b.buf) - 1)}
  \cup {[kind |-> "marker", at |-> i, n |-> 0, bytes |-> <<v>>] :
          i \in 0..(Len(p.Accounts) - 1), v \in {0, 1, 254, 255}}
  \cup UNION {{[kind |-> "setlen", at |-> i, n |-> 0, bytes |-> f] :
                 f \in LenFields(Len(p.Accounts[i + 1].Data))} : i \in Primaries(p)}
  \cup {[kind |-> "grow", at |-> i, n |-> g, bytes |-> NewData(g)] :
          i \in Primaries(p), g \in 0..MaxGrow}
  \cup {[kind |-> k, at |-> i, n |-> IF i < 0 THEN 0 ELSE MaxGrow,
         bytes |-> IF i < 0 THEN <<>> ELSE NewData(MaxGrow)] :
          k \in {"layout8", "layout1"}, i \in {-1} \cup Primaries(p)}

\* s with the bytes at offsets from..from+Len(bytes)-1 replaced by bytes.
Overwrite(s, from, bytes) ==
  [k \in 1..Len(s) |-> IF k > from /\ k <= from + Len(bytes) THEN bytes[k - from] ELSE s[k]]

\* s with bytes put in at offset from.
Insert(s, from, bytes) == SubSeq(s, 1, from) \o bytes \o SubSeq(s, from + 1, Len(s))

Edited(p, b, e) ==
  CASE e.kind = "cut" -> SubSeq(b.buf, 1, e.at)
    [] e.kind = "marker" -> Overwrite(b.buf, b.marks[e.at + 1], e.bytes)
    [] e.kind = "setlen" -> Overwrite(b.buf, b.lens[e.at + 1], e.bytes)
    [] e.kind = "grow" ->
         LET oldLen == Len(p.Accounts[e.at + 1].Data)
         IN  Insert(Overwrite(b.buf, b.lens[e.at + 1], LittleEndian64(oldLen + e.n)),
                    b.lens[e.at + 1] + 8 + oldLen, e.bytes)
    [] e.kind = "layout8" -> LaidOut(p, 8, e.at, e.bytes)
    [] e.kind = "layout1" -> LaidOut(p, 1, e.at, e.bytes)
    [] OTHER -> b.buf

\* Where the reader handed to Update stands: at the first byte of the
\* block, or past the 8 bytes of the account count.
Starts == {0, 8}

InitSealevel ==
  /\ pc = "params"
  /\ params \in ParamsChoices
  /\ before = params
  /\ block = NoBlock
  /\ src = <<>>
  /\ edit = NoEdit
  /\ res = NoResult
  /\ Base58Idle

\* p.Serialize(&buf)
CallSerialize ==
  /\ pc = "params"
  /\ LET done == Serialize(params)
     IN  /\ params' = done.p
         /\ block' = [buf |-> done.buf, marks |-> done.marks, lens |-> done.lens]
         /\ src' = done.buf
  /\ pc' = "serialized"
  /\ UNCHANGED <<before, edit, res>>
  /\ UNCHANGED base58vars

\* The block changes between Serialize and Update.
EditBlock ==
  /\ pc = "serialized"
  /\ \E e \in Edits(params, block) :
       /\ edit' = e
       /\ src' = Edited(params, block, e)
  /\ pc' = "edited"
  /\ UNCHANGED <<params, before, block, res>>
  /\ UNCHANGED base58vars

\* err := p.Update(bytes.NewReader(...))
CallUpdate ==
  /\ pc \in {"serialized", "edited"}
  /\ \E start \in Starts :
       LET done == Update(params, [s |-> src, i |-> start])
       IN  /\ params' = done.p
           /\ res' = [err |-> done.err, at |-> done.at, idx |-> done.idx, start |-> start]
  /\ pc' = "updated"
  /\ UNCHANGED <<before, block, src, edit>>
  /\ UNCHANGED base58vars

NextSealevel ==
  \/ CallSerialize
  \/ EditBlock
  \/ CallUpdate

SpecSealevel == InitSealevel /\ [][NextSealevel]_vars

(***************************************************************************)
(* Properties of the base58 runs (SpecBase58).                             *)
(***************************************************************************)

\* The bytes of the alphabet.
AlphabetSet == {alphabet[k] : k \in 1..Len(alphabet)}

\* len(encoded) passes Decode's length check.
AdmissibleLen(n, text) == Len(text) >= n /\ Len(text) <= n + (n \div 8) * 3

\* Encode of the given width applied to a value, on a fresh output array.
EncodeOf(n, value) ==
  IF n = 32 THEN Encode32(Filled(44, 0), value) ELSE Encode64(Filled(88, 0), value)

\* C2: for every 32-byte (64-byte) value x, Encode32 (Encode64) returns, and
\* Decode32 (Decode64) applied to the text it produced succeeds and writes
\* exactly x.
C2_RoundTrip ==
  /\ pc \in {"encoded", "altered", "decoded"} => enc.ret = "ok"
  /\ pc = "decoded" /\ how.kind = "none" => dec.ret = "true" /\ dec.out = in

\* C2 witness: a 64-byte value with leading zero bytes went through Encode64
\* and Decode64 and came back.
C2_Witness ==
  /\ pc = "decoded" /\ how.kind = "none" /\ width = 64
  /\ in[0] = 0 /\ in[1] = 0 /\ in[2] # 0 /\ in[63] # 0
  /\ dec.ret = "true" /\ dec.out = in

\* C3: Decode returns failure, and does not fault, for every text of
\* admissible length with at least one byte outside the alphabet.
C3_InvalidCharRejected ==
  pc = "decoded" /\ AdmissibleLen(width, encoded)
    /\ (\E k \in 1..Len(encoded) : encoded[k] \notin AlphabetSet)
    => dec.ret = "false"

\* C4: whenever Decode succeeds on a text and yields a value, the text is
\* exactly the one Encode produces for that value; a text made by putting
\* one more '1' in front of the encoding of a value is rejected.
C4_Canonical ==
  /\ pc = "decoded" /\ dec.ret = "true"
       => LET again == EncodeOf(width, dec.out)
          IN  again.ret = "ok" /\ encoded = TextOf(again)
  /\ pc = "decoded" /\ how.kind = "prepend1" => dec.ret = "false"

\* C4 witness: Decode64 succeeded on a text other than the one Encode64
\* had produced for the input, yielding another value.
C4_Witness ==
  /\ pc = "decoded" /\ how.kind = "set" /\ width = 64 /\ dec.ret = "true"
  /\ encoded # TextOf(enc) /\ dec.out # in

\* C10 as stated: whenever Decode returns failure, for any of its causes,
\* *out is what it was before the call.
C10_AnyFailureLeavesOut ==
  pc = "decoded" /\ dec.ret = "false" => dec.out = out0

\* C10 as amended: whenever Decode returns failure because of the length,
\* a character outside the alphabet or numeric overflow, *out is what it was
\* before the call; when it returns failure because of the leading '1' run,
\* *out holds the bytes of the decoded number.
C10_EarlyFailureLeavesOut ==
  /\ pc = "decoded" /\ dec.ret = "false" /\ dec.why \in {"length", "character", "overflow"}
       => dec.out = out0
  /\ pc = "decoded" /\ dec.ret = "false" /\ dec.why = "leading" /\ how.kind = "prepend1"
       => dec.out = in

\* C10 witness: Decode returned failure on numeric overflow, after the
\* arithmetic, with *out as before the call.
C10_Witness ==
  /\ pc = "decoded" /\ dec.ret = "false" /\ dec.why = "overflow"
  /\ dec.out = out0

\* The text of k characters '1' followed by the given bytes.
Ones(k, rest) == [i \in 1..k |-> 49] \o rest

\* The 32-byte input that is zero but for a last byte b.
ZeroBut(b) == [k \in 0..31 |-> IF k = 31 THEN b ELSE 0]

\* C11 as stated: Encode32 of the all-zero input gives 34 characters '1',
\* and Encode32 of the input that is zero but for a last byte 1 gives 33
\* characters '1' followed by "2".
C11_ZeroVectors34 ==
  pc = "encoded" /\ width = 32
    => /\ in = ZeroBut(0) => enc.ret = "ok" /\ TextOf(enc) = Ones(34, <<>>)
       /\ in = ZeroBut(1) => enc.ret = "ok" /\ TextOf(enc) = Ones(33, <<50>>)

\* C11 as amended: Encode32 of the all-zero input gives 32 characters '1',
\* and Encode32 of the input that is zero but for a last byte 1 gives 31
\* characters '1' followed by "2" (the first two entries of testVector32).
C11_ZeroVectors32 ==
  pc = "encoded" /\ width = 32
    => /\ in = ZeroBut(0) => enc.ret = "ok" /\ enc.n = 32 /\ TextOf(enc) = Ones(32, <<>>)
       /\ in = ZeroBut(1) => enc.ret = "ok" /\ enc.n = 32 /\ TextOf(enc) = Ones(31, <<50>>)

\* C11 witness: Encode32 has run on the input that is zero but for a last
\* byte 1.
C11_Witness ==
  pc = "encoded" /\ width = 32 /\ in = ZeroBut(1) /\ enc.ret = "ok" /\ enc.n = 32

\* The encodings of the largest 32-byte and 64-byte values (the 0xFF..FF
\* entries of testVector32 and testVector64).
MaxText32 ==
  <<74, 69, 75, 78, 86, 110, 107, 98, 111, 51, 106, 109, 97, 53, 110, 82, 69, 66, 66, 74, 67, 68, 111, 88, 70, 86, 101, 75, 107, 68, 53, 54, 86, 51, 120, 75, 114, 118, 82, 109, 87, 120, 70, 71>>
MaxText64 ==
  <<54, 55, 114, 112, 119, 76, 67, 117, 83, 53, 68, 71, 65, 56, 75, 71, 90, 88, 75, 115, 86, 81,
    55, 100, 110, 80, 98, 57, 103, 111, 82, 76, 111, 75, 102, 103, 71, 98, 76, 102, 81, 103, 57, 87,
    111, 76, 85, 103, 78, 89, 55, 55, 69, 50, 106, 84, 49, 49, 102, 101, 109, 51, 99, 111, 86, 57,
    110, 65, 107, 103, 117, 66, 65, 67, 122, 114, 85, 49, 105, 121, 90, 77, 52, 66, 56, 114, 111, 81>>

\* The text, of at most Len(max) alphabet characters, stands for a larger
\* number than max: with the text padded on the left with '1' (the digit
\* 0) to the length of max, the first character that differs is the larger
\* one (the alphabet is in the order of its byte values).
Exceeds(text, max) ==
  LET pad == Len(max) - Len(text)
      at(k) == IF k <= pad THEN 49 ELSE text[k - pad]
      differ == {k \in 1..Len(max) : at(k) # max[k]}
  IN  differ # {} /\ at(Least(differ)) > max[Least(differ)]

\* C12: for every text of admissible length made of alphabet characters
\* only, no uint64 addition of Decode wraps, and when the number the text
\* stands for is 256^N or more (the all-'z' text of 44, of 88 characters
\* among them) Decode returns failure from the overflow check.
C12_OverflowRejected ==
  pc = "decoded" /\ AdmissibleLen(width, encoded)
    /\ (\A k \in 1..Len(encoded) : encoded[k] \in AlphabetSet)
    => /\ ~dec.wrapped
       /\ Exceeds(encoded, IF width = 32 THEN MaxText32 ELSE MaxText64)
            => dec.ret = "false" /\ dec.why = "overflow"

\* C12 witness: Decode64 returned failure from the overflow check on the
\* text of 88 characters 'z'.
C12_Witness ==
  /\ pc = "decoded" /\ width = 64 /\ how.kind = "allz" /\ Len(encoded) = 88
  /\ Exceeds(encoded, MaxText64)
  /\ dec.ret = "false" /\ dec.why = "overflow" /\ ~dec.wrapped

DuplicatesWellFormed(p) ==
  \A i \in 0..(Len(p.Accounts) - 1) :
    p.Accounts[i + 1].IsDuplicate =>
      p.Accounts[i + 1].DuplicateIndex < i /\ p.Accounts[i + 1].DuplicateIndex # 255

\* Two AccountParam values agree on every field but Padding.
SameAccount(a, b) == [a EXCEPT !.Padding = 0] = [b EXCEPT !.Padding = 0]

\* Two Params values agree on everything but the accounts' Padding.
SameParams(p, q) ==
  /\ Len(p.Accounts) = Len(q.Accounts)
  /\ \A i \in 1..Len(p.Accounts) : SameAccount(p.Accounts[i], q.Accounts[i])
  /\ p.Data = q.Data
  /\ p.ProgramID = q.ProgramID

\* C1: Serialize, then Update on a reader at the start of exactly those
\* bytes, returns no error and leaves every field as it was before Serialize.
C1_SerializeUpdateRoundTrip ==
  pc = "updated" /\ edit.kind = "none" /\ res.start = 0 /\ DuplicatesWellFormed(before)
    => res.err = "nil" /\ SameParams(params, before)

\* C5: when one account's data length field is raised by g <= ReallocSpace
\* and g new bytes follow the old data, Update returns no error, the
\* account's Data is the old data followed by the new bytes, and every other
\* field keeps its value.
C5_GrowthWithinBudget ==
  pc = "updated" /\ edit.kind = "grow"
    => /\ res.err = "nil"
       /\ params.Accounts[edit.at + 1].Data = before.Accounts[edit.at + 1].Data \o edit.bytes
       /\ SameParams([params EXCEPT !.Accounts[edit.at + 1].Data =
                        before.Accounts[edit.at + 1].Data], before)

\* C6: a data length field below the account's length at Serialize time
\* makes Update fail with "attempted to shrink account", one above that
\* length plus ReallocSpace with "attempted to grow account too much".
C6_ShrinkAndOvergrowRejected ==
  pc = "updated" /\ edit.kind = "setlen"
    => LET oldLen == Len(before.Accounts[edit.at + 1].Data)
       IN  /\ Small64(edit.bytes) /\ Value64(edit.bytes) < oldLen
                => res.err = "attempted to shrink account"
           /\ ~Small64(edit.bytes) \/ Value64(edit.bytes) > oldLen + ReallocSpace
                => res.err = "attempted to grow account too much"

\* The marker byte the block is to hold for an account.
ExpectedMarker(acc) == IF acc.IsDuplicate THEN acc.DuplicateIndex ELSE 255

\* C7: Update fails with "account order changed" at an account exactly when
\* the marker byte read for it differs from 0xFF (the account is not a
\* duplicate) or from its DuplicateIndex (it is one).
C7_OrderChangedIffMarkerDiffers ==
  pc = "updated" /\ res.idx # -1
    => (res.err = "account order changed"
          <=> res.idx # ExpectedMarker(before.Accounts[res.at + 1]))

\* C8: when the bytes end before the layout is complete, Update returns the
\* end-of-input error, never another error and never success.
C8_TruncationReported ==
  pc = "updated" /\ edit.kind = "cut" => res.err = "EOF"

\* The size of an account's record in the wire layout.
RecordSize(acc) ==
  IF acc.IsDuplicate THEN 1 + 7
  ELSE 1 + 3 + 4 + 32 + 32 + 8 + 8 + Len(acc.Data) + acc.Padding + 8

\* The offset of the record of account i in the wire layout.
RECURSIVE RecordOffset(_, _)
RecordOffset(p, i) ==
  IF i = 0 THEN 8 ELSE RecordOffset(p, i - 1) + RecordSize(p.Accounts[i])

\* C9: the buffer Serialize leaves is as long as the wire layout says, and
\* each account's marker byte and each account's Key sit at the offsets
\* the layout implies.
C9_WireLayout ==
  pc = "serialized"
    => /\ Len(block.buf) = RecordOffset(params, Len(params.Accounts)) + 8 + Len(params.Data) + 32
       /\ \A i \in 0..(Len(params.Accounts) - 1) :
            LET at == RecordOffset(params, i)
                acc == params.Accounts[i + 1]
            IN  /\ at + 8 <= Len(block.buf)
                /\ block.buf[at + 1] = ExpectedMarker(acc)
                /\ ~acc.IsDuplicate => SubSeq(block.buf, at + 9, at + 40) = acc.Key

\* C14: on a source that holds the original accounts, each with its
\* marker and a legal data length (the block as Serialize left it, or laid
\* out the way Update steps through it), Update leaves the account walk
\* after the last account and returns no error, ProgramID being read back
\* with its value; "number of accounts changed" is not returned.
C14_UpdateSucceedsOnWellFormed ==
  pc = "updated" /\ edit.kind \in {"none", "layout8", "layout1"}
    => /\ res.err = "nil"
       /\ res.err # "number of accounts changed"
       /\ params.ProgramID = before.ProgramID

\* C15: the Padding Serialize records for an account of its own is at least
\* ReallocSpace and at most ReallocSpace + 7, and the buffer length at which
\* it is computed plus Padding is a multiple of ReallocAlign.
C15_PaddingAligns ==
  pc = "serialized"
    => \A i \in Primaries(params) :
         LET acc == params.Accounts[i + 1]
             end == block.lens[i + 1] + 8 + Len(acc.Data)
         IN  /\ acc.Padding >= ReallocSpace
             /\ acc.Padding <= ReallocSpace + (ReallocAlign - 1)
             /\ (end + acc.Padding) % ReallocAlign = 0

====
